---- MODULE Spec2Model ----
(***************************************************************************)
(* The RAG retriever (backend/services/rag/retriever.py), the streaming   *)
(* WebSocket chat protocol (backend/api/websocket/chat_ws.py), the LLM     *)
(* client, the embedding service and the HTTP chat endpoints               *)
(* (backend/api/v1/chat.py) of the wealth-coach backend.                   *)
(*                                                                         *)
(* Text is a sequence of one-character strings, so that len(), slicing,    *)
(* strip() and concatenation are computed as Python computes them.         *)
(* Similarity scores are hundredths (0.7 is 70).                           *)
(***************************************************************************)
EXTENDS Integers, Sequences, FiniteSets, TLC

VARIABLES
  \* ---- chat_ws: one entry per WebSocket connection ----
  pc,                   \* where websocket_chat stands for the connection
  close_reason,         \* the reason of the server's websocket.close(), "" if none
  client_gone,          \* the client has closed the transport
  authenticated,        \* websocket_chat's local flag
  sessions,             \* manager.sessions: connection -> SessionData or NoSession
  active_connections,   \* the module's dict user_id -> set of connections
  cache,                \* the Redis keys of the chat cache: key -> stored text
  turn,                 \* handle_chat_message's locals of the running turn
  events,               \* the events emitted since the latest client message
  log,                  \* every add_message call of the connection's session, in order
  \* ---- RAGRetriever ----
  max_context_length,   \* RAGRetriever.max_context_length
  top_k,                \* RAGRetriever.top_k
  similarity_threshold, \* RAGRetriever.similarity_threshold, in hundredths
  store,                \* the rows the vector store holds for the query, best first or not
  retrieval,            \* the last retrieve() call: its inputs and what it returned
  \* ---- LLMClient ----
  llm,                  \* the running or last chat() call, as tenacity drives it
  llm_cache,            \* the Redis keys of LLMClient's cache: key -> stored content
  llm_stats,            \* LLMClient.stats
  \* ---- EmbeddingService ----
  embedding_cache,      \* the Redis keys of the embedding cache: text -> stored string
  embedded,             \* the last embed_batch() call: its inputs and what it returned
  \* ---- api/v1/chat.py: the HTTP chat endpoints and what they persist ----
  chat_sessions,        \* the ChatSession table: session id -> owning user_id
  chat_messages,        \* the ChatMessage table, in created_at order
  response_cache,       \* the Redis keys of the HTTP response cache: key -> stored dict
  http,                 \* the last HTTP chat request: its inputs and its outcome
  \* ---- ChatHistoryService ----
  history_files         \* the markdown session files: <<user_id, session_id>> -> blocks

ragVars == <<max_context_length, top_k, similarity_threshold, store, retrieval>>

llmVars == <<llm, llm_cache, llm_stats>>

embVars == <<embedding_cache, embedded>>

httpVars == <<chat_sessions, chat_messages, response_cache, http>>

\* everything but the chat protocol's state
svcVars == <<ragVars, llmVars, embVars, httpVars, history_files>>

wsVars == <<pc, close_reason, client_gone, authenticated, sessions, active_connections,
            cache, turn, events, log>>

vars == <<wsVars, svcVars>>

----------------------------------------------------------------------------
(* Text helpers *)

Min(a, b) == IF a < b THEN a ELSE b

Max(a, b) == IF a > b THEN a ELSE b

\* n copies of the character ch
Rep(n, ch) == [i \in 1..n |-> ch]

\* Python s[:n] for n >= 0
Take(s, n) == SubSeq(s, 1, Min(n, Len(s)))

\* Python s[-n:] for n >= 1
LastN(s, n) == SubSeq(s, Max(1, Len(s) - n + 1), Len(s))

IsSpace(ch) == ch \in {" ", "\n", "\t"}

RECURSIVE LStrip(_)
LStrip(s) == IF s # <<>> /\ IsSpace(Head(s)) THEN LStrip(Tail(s)) ELSE s

RECURSIVE RStrip(_)
RStrip(s) ==
  IF s # <<>> /\ IsSpace(s[Len(s)]) THEN RStrip(SubSeq(s, 1, Len(s) - 1)) ELSE s

\* Python str.strip()
Strip(s) == RStrip(LStrip(s))

\* whether p is a prefix of s
IsPrefix(p, s) == Len(p) <= Len(s) /\ SubSeq(s, 1, Len(p)) = p

DigitChars == <<"0", "1", "2", "3", "4", "5", "6", "7", "8", "9">>

\* Python str(n) for n >= 0
RECURSIVE IntToStr(_)
IntToStr(n) ==
  IF n < 10 THEN <<DigitChars[n + 1]>>
  ELSE IntToStr(n \div 10) \o <<DigitChars[(n % 10) + 1]>>

\* Python sep.join(parts)
RECURSIVE Join(_, _)
Join(parts, sep) ==
  IF parts = <<>> THEN <<>>
  ELSE IF Len(parts) = 1 THEN parts[1]
  ELSE parts[1] \o sep \o Join(Tail(parts), sep)

----------------------------------------------------------------------------
(* RAGRetriever *)

\* settings.RAG_SIMILARITY_THRESHOLD (0.7), in hundredths
RAG_SIMILARITY_THRESHOLD == 70

\* _build_context: a cut document is added only if more than this much remains
MEANINGFUL_REMAINING == 100

\* _rank_and_filter: the length of the content prefix used as duplicate key
DEDUP_PREFIX == 200

\* the marker appended to a cut part
ELLIPSIS == <<".", ".", ".">>

\* rows turned into documents with no look at the threshold
RECURSIVE ProcessResultsKeepsAll(_, _)
ProcessResultsKeepsAll(search_results, threshold) ==
  IF search_results = <<>> THEN <<>>
  ELSE LET r == Head(search_results)
       IN <<[content |-> r.content, score |-> r.similarity,
             source |-> r.source, chunk_id |-> r.id]>>
            \o ProcessResultsKeepsAll(Tail(search_results), threshold)

\* _process_results: raw store rows to RetrievedDocument, below-threshold dropped
RECURSIVE ProcessResults(_, _)
ProcessResults(search_results, threshold) ==
  IF search_results = <<>> THEN <<>>
  ELSE LET r == Head(search_results)
           rest == ProcessResults(Tail(search_results), threshold)
       IN IF r.similarity < threshold THEN rest
          ELSE <<[content |-> r.content, score |-> r.similarity,
                  source |-> r.source, chunk_id |-> r.id]>> \o rest

\* an insertion that puts d in front of the documents of its own score
RECURSIVE InsertByScoreBeforeTies(_, _)
InsertByScoreBeforeTies(sorted, d) ==
  IF sorted = <<>> THEN <<d>>
  ELSE IF Head(sorted).score > d.score
       THEN <<Head(sorted)>> \o InsertByScoreBeforeTies(Tail(sorted), d)
       ELSE <<d>> \o sorted

\* insert d behind every document whose score is >= d.score (stable, descending)
RECURSIVE InsertByScore(_, _)
InsertByScore(sorted, d) ==
  IF sorted = <<>> THEN <<d>>
  ELSE IF Head(sorted).score >= d.score
       THEN <<Head(sorted)>> \o InsertByScore(Tail(sorted), d)
       ELSE <<d>> \o sorted

\* documents.sort(key=score, reverse=True): Python's sort is stable
RECURSIVE SortByScore(_)
SortByScore(docs) ==
  IF docs = <<>> THEN <<>>
  ELSE InsertByScore(SortByScore(SubSeq(docs, 1, Len(docs) - 1)), docs[Len(docs)])

\* doc.content[:200].strip()
ContentKey(doc) == Strip(Take(doc.content, DEDUP_PREFIX))

\* a filter that lets every document through
DedupKeepsAll(docs, seen_contents) == docs

\* the loop of _rank_and_filter: the first document of each content key is kept
RECURSIVE Dedup(_, _)
Dedup(docs, seen_contents) ==
  IF docs = <<>> THEN <<>>
  ELSE LET d == Head(docs)
       IN IF ContentKey(d) \in seen_contents
          THEN Dedup(Tail(docs), seen_contents)
          ELSE <<d>> \o Dedup(Tail(docs), seen_contents \cup {ContentKey(d)})

\* _rank_and_filter
RankAndFilter(docs) == Dedup(SortByScore(docs), {})

\* f"[Source {i}: {doc.source}]\n{doc.content}\n"
FormatPart(i, doc) ==
  <<"[", "S", "o", "u", "r", "c", "e", " ">> \o IntToStr(i) \o <<":", " ">>
    \o doc.source \o <<"]", "\n">> \o doc.content \o <<"\n">>

\* the loop with the prefix added when exactly MEANINGFUL_REMAINING remain, too
RECURSIVE BuildPartsInclusive(_, _, _, _, _)
BuildPartsInclusive(docs, i, current_length, context_parts, maxlen) ==
  IF i > Len(docs) THEN context_parts
  ELSE LET part == FormatPart(i, docs[i])
       IN IF current_length + Len(part) > maxlen
          THEN LET remaining == maxlen - current_length
               IN IF remaining >= MEANINGFUL_REMAINING
                  THEN Append(context_parts, Take(part, remaining) \o ELLIPSIS)
                  ELSE context_parts
          ELSE BuildPartsInclusive(docs, i + 1, current_length + Len(part),
                                   Append(context_parts, part), maxlen)

\* the loop of _build_context from document i on; returns context_parts
RECURSIVE BuildParts(_, _, _, _, _)
BuildParts(docs, i, current_length, context_parts, maxlen) ==
  IF i > Len(docs) THEN context_parts
  ELSE LET part == FormatPart(i, docs[i])
       IN IF current_length + Len(part) > maxlen
          THEN LET remaining == maxlen - current_length
               IN IF remaining > MEANINGFUL_REMAINING
                  THEN Append(context_parts, Take(part, remaining) \o ELLIPSIS)
                  ELSE context_parts
          ELSE BuildParts(docs, i + 1, current_length + Len(part),
                          Append(context_parts, part), maxlen)

\* _build_context
BuildContext(docs, maxlen) ==
  IF docs = <<>> THEN <<>>
  ELSE Join(BuildParts(docs, 1, 0, <<>>, maxlen), <<"\n">>)

\* _extract_sources: unique sources in first-seen order
RECURSIVE ExtractSources(_, _)
ExtractSources(docs, seen) ==
  IF docs = <<>> THEN <<>>
  ELSE IF Head(docs).source \in seen THEN ExtractSources(Tail(docs), seen)
       ELSE <<Head(docs).source>> \o ExtractSources(Tail(docs), seen \cup {Head(docs).source})

EmptyResult ==
  [documents |-> <<>>, total_found |-> 0, context |-> <<>>, sources |-> <<>>,
   raised |-> FALSE]

\* the body of retrieve's try block, once embedding and search have returned
RetrieveOk(search_results, k, maxlen) ==
  LET documents == Take(RankAndFilter(ProcessResults(search_results, similarity_threshold)), k)
  IN [documents |-> documents, total_found |-> Len(documents),
      context |-> BuildContext(documents, maxlen),
      sources |-> ExtractSources(documents, {}), raised |-> FALSE]

\* the except branch re-raising instead of returning
RetrieveOnErrorReraises == [EmptyResult EXCEPT !.raised = TRUE]

\* retrieve's except branch: log and return the empty result
RetrieveOnError == EmptyResult

\* what retrieve returns; embed and search are "ok" or "raise"
RetrieveResult(search_results, k, maxlen, embed, search) ==
  IF embed = "raise" \/ search = "raise" THEN RetrieveOnError
  ELSE RetrieveOk(search_results, k, maxlen)

NoRetrieval == [called |-> FALSE]

\* RAGRetriever.retrieve(query, top_k=arg_k); arg_k = 0 stands for None
Retrieve(arg_k, embed, search) ==
  LET k == IF arg_k # 0 THEN arg_k ELSE top_k
      \* similarity_search(k = k * 2, threshold): whatever the store answers
      search_results == store
  IN /\ retrieval' = [called |-> TRUE, k |-> k, embed |-> embed, search |-> search,
                      result |-> RetrieveResult(search_results, k,
                                                max_context_length, embed, search)]
     /\ UNCHANGED <<max_context_length, top_k, similarity_threshold, store>>
     /\ UNCHANGED <<wsVars, llmVars, embVars, httpVars, history_files>>

----------------------------------------------------------------------------
(* LLMClient.chat under its tenacity @retry *)

\* stop_after_attempt(3)
LLM_MAX_ATTEMPTS == 3

\* what the provider call of one attempt may do
ProviderOutcomes == {"ok", "transient", "invalid"}

\* a stop rule that allows three retries after the first attempt
StopAfterAttemptLate(attempt_number) == attempt_number >= LLM_MAX_ATTEMPTS + 1

\* stop=stop_after_attempt(3): the third attempt is the last
StopAfterAttempt(attempt_number) == attempt_number >= LLM_MAX_ATTEMPTS

\* retry=retry_if_exception_type((Exception,)): every error is retried
RetryIfException(error) == error \in {"transient", "invalid"}

\* no chat() call yet
ChatIdle ==
  [pc |-> "idle", messages |-> "", use_cache |-> FALSE, attempt_number |-> 0,
   outcomes |-> <<>>, errors_before |-> 0, content |-> "", cached |-> FALSE,
   error |-> ""]

\* _generate_cache_key(messages): a sha256 digest, taken to be collision-free
GenerateCacheKey(messages) == <<"llm", messages>>

\* LLMStats.add_request
AddRequest(stats, cached) ==
  [stats EXCEPT !.total_requests = @ + 1,
                !.cache_hits = IF cached THEN @ + 1 ELSE @,
                !.cache_misses = IF cached THEN @ ELSE @ + 1]

\* LLMStats.add_error
AddError(stats) == [stats EXCEPT !.errors = @ + 1]

\* the caller awaits chat(messages, use_cache=...): tenacity starts attempt 1
ChatCall(messages, use_cache) ==
  /\ llm.pc \in {"idle", "returned", "raised"}
  /\ llm' = [ChatIdle EXCEPT !.pc = "attempt", !.messages = messages,
                             !.use_cache = use_cache, !.attempt_number = 1,
                             !.errors_before = llm_stats.errors]
  /\ UNCHANGED <<llm_cache, llm_stats>>
  /\ UNCHANGED <<wsVars, ragVars, embVars, httpVars, history_files>>

\* one attempt, the whole body of chat(): the cache lookup (an error of the
\* lookup counts as no entry), the provider call, the cache store (its errors
\* swallowed), the statistics; then tenacity's decision on an error.  The
\* exponential wait between two attempts only sleeps.
ChatAttempt(cache_get, provider, content, cache_set) ==
  LET cache_key == GenerateCacheKey(llm.messages)
      cached_response ==
        IF llm.use_cache /\ cache_get = "ok" /\ cache_key \in DOMAIN llm_cache
        THEN llm_cache[cache_key] ELSE ""
  IN /\ llm.pc = "attempt"
     /\ IF cached_response # ""
        THEN /\ llm' = [llm EXCEPT !.pc = "returned", !.content = cached_response,
                                   !.cached = TRUE]
             /\ llm_stats' = AddRequest(llm_stats, TRUE)
             /\ UNCHANGED llm_cache
        ELSE IF provider = "ok"
        THEN /\ llm' = [llm EXCEPT !.pc = "returned", !.content = content,
                                   !.cached = FALSE,
                                   !.outcomes = Append(@, provider)]
             /\ llm_cache' =
                  IF llm.use_cache /\ cache_set = "ok"
                  THEN [k \in DOMAIN llm_cache \cup {cache_key} |->
                          IF k = cache_key THEN content ELSE llm_cache[k]]
                  ELSE llm_cache
             /\ llm_stats' = AddRequest(llm_stats, FALSE)
        ELSE /\ llm_stats' = AddError(llm_stats)
             /\ UNCHANGED llm_cache
             /\ IF RetryIfException(provider) /\ ~StopAfterAttempt(llm.attempt_number)
                THEN llm' = [llm EXCEPT !.attempt_number = @ + 1,
                                        !.outcomes = Append(@, provider)]
                ELSE llm' = [llm EXCEPT !.pc = "raised", !.error = provider,
                                        !.outcomes = Append(@, provider)]
     /\ UNCHANGED <<wsVars, ragVars, embVars, httpVars, history_files>>

----------------------------------------------------------------------------
(* EmbeddingService.embed_batch *)

\* the vector the model computes for a text; components are tenths
Encode(text) ==
  IF text = "t1" THEN <<10, -5>>
  ELSE IF text = "t2" THEN <<0, 123>>
  ELSE <<-7, 10>>

\* str(float): sign, integer part, point, fraction
FloatToStr(x) ==
  LET a == IF x < 0 THEN -x ELSE x
  IN (IF x < 0 THEN <<"-">> ELSE <<>>) \o IntToStr(a \div 10) \o <<".">>
       \o IntToStr(a % 10)

\* ','.join(map(str, embedding))
FormatEmbedding(embedding) ==
  Join([i \in 1..Len(embedding) |-> FloatToStr(embedding[i])], <<",">>)

DigitValue(ch) == CHOOSE d \in 0..9 : DigitChars[d + 1] = ch

\* int() of a run of digits
RECURSIVE StrToInt(_)
StrToInt(s) ==
  IF s = <<>> THEN 0 ELSE 10 * StrToInt(SubSeq(s, 1, Len(s) - 1)) + DigitValue(s[Len(s)])

\* the position of the first ch in s, 0 if there is none
RECURSIVE IndexOf(_, _)
IndexOf(s, ch) ==
  IF s = <<>> THEN 0
  ELSE IF Head(s) = ch THEN 1
  ELSE LET r == IndexOf(Tail(s), ch) IN IF r = 0 THEN 0 ELSE r + 1

\* float(x) of what str(float) wrote
StrToFloat(s) ==
  LET neg == s # <<>> /\ Head(s) = "-"
      body == IF neg THEN Tail(s) ELSE s
      dot == IndexOf(body, ".")
      a == 10 * StrToInt(SubSeq(body, 1, dot - 1))
             + StrToInt(SubSeq(body, dot + 1, Len(body)))
  IN IF neg THEN -a ELSE a

\* cached.split(',')
RECURSIVE Split(_, _)
Split(s, sep) ==
  LET i == IndexOf(s, sep)
  IN IF i = 0 THEN <<s>>
     ELSE <<SubSeq(s, 1, i - 1)>> \o Split(SubSeq(s, i + 1, Len(s)), sep)

\* [float(x) for x in cached.split(',')]
ParseEmbedding(cached) ==
  LET parts == Split(cached, ",") IN [i \in 1..Len(parts) |-> StrToFloat(parts[i])]

\* _get_from_cache(text): the parsed vector, or <<>> for None (no entry, or the
\* lookup raised and the error was swallowed)
EmbeddingFromCache(text, lookup_fails) ==
  IF ~lookup_fails /\ text \in DOMAIN embedding_cache /\ embedding_cache[text] # <<>>
  THEN ParseEmbedding(embedding_cache[text])
  ELSE <<>>

\* the indices whose lookup gave None, ascending: text_indices / uncached_texts
RECURSIVE UncachedIndices(_, _, _)
UncachedIndices(texts, get_fails, idx) ==
  IF idx > Len(texts) THEN <<>>
  ELSE IF EmbeddingFromCache(texts[idx], idx \in get_fails) = <<>>
       THEN <<idx>> \o UncachedIndices(texts, get_fails, idx + 1)
       ELSE UncachedIndices(texts, get_fails, idx + 1)

\* the new vectors put back at their position among the uncached texts
OriginalIndexPositional(text_indices, uncached_idx) == uncached_idx

\* original_idx = text_indices[uncached_idx]
OriginalIndex(text_indices, uncached_idx) == text_indices[uncached_idx]

\* cached_results once the new embeddings are stitched in: index -> vector
CachedResults(texts, get_fails) ==
  LET text_indices == UncachedIndices(texts, get_fails, 1)
      new_embeddings == [u \in 1..Len(text_indices) |-> Encode(texts[text_indices[u]])]
      stitched == {OriginalIndex(text_indices, u) : u \in 1..Len(text_indices)}
      hits == {i \in 1..Len(texts) :
                 EmbeddingFromCache(texts[i], i \in get_fails) # <<>>}
      \* a later assignment to the same index overwrites an earlier one
      LastFor(i) == CHOOSE u \in 1..Len(text_indices) :
                      /\ OriginalIndex(text_indices, u) = i
                      /\ \A v \in 1..Len(text_indices) :
                           OriginalIndex(text_indices, v) = i => v <= u
  IN [i \in hits \cup stitched |->
        IF i \in stitched THEN new_embeddings[LastFor(i)]
        ELSE EmbeddingFromCache(texts[i], i \in get_fails)]

NotEmbedded == [called |-> FALSE]

\* embed_batch(texts); get_fails and set_fails are the indices whose cache
\* lookup or store raises (swallowed), encode is "ok" or "raise"
EmbedBatch(texts, get_fails, set_fails, encode) ==
  LET text_indices == UncachedIndices(texts, get_fails, 1)
      cached_results == CachedResults(texts, get_fails)
      failed == text_indices # <<>> /\ encode = "raise"
      \* cached_results[i] for i in range(len(texts)): KeyError on a missing index
      complete == DOMAIN cached_results = 1..Len(texts)
      stored == {texts[text_indices[u]] :
                   u \in {v \in 1..Len(text_indices) : text_indices[v] \notin set_fails}}
  IN /\ embedded' =
          IF failed \/ ~complete
          THEN [called |-> TRUE, texts |-> texts, text_indices |-> text_indices,
                encode |-> encode, raised |-> TRUE, result |-> <<>>]
          ELSE [called |-> TRUE, texts |-> texts, text_indices |-> text_indices,
                encode |-> encode, raised |-> FALSE,
                result |-> cached_results]
     /\ embedding_cache' =
          IF failed THEN embedding_cache
          ELSE [t \in DOMAIN embedding_cache \cup stored |->
                  IF t \in stored THEN FormatEmbedding(Encode(t))
                  ELSE embedding_cache[t]]
     /\ UNCHANGED <<wsVars, ragVars, llmVars, httpVars, history_files>>

\* the embedding cache's TTL runs out for a text
EmbeddingExpire(text) ==
  /\ text \in DOMAIN embedding_cache
  /\ embedding_cache' = [t \in DOMAIN embedding_cache \ {text} |-> embedding_cache[t]]
  /\ UNCHANGED embedded
  /\ UNCHANGED <<wsVars, ragVars, llmVars, httpVars, history_files>>

----------------------------------------------------------------------------
(* chat_ws: SessionData *)

\* settings.WS_MAX_CONNECTIONS_PER_USER
WS_MAX_CONNECTIONS_PER_USER == 3

\* SessionData.add_message keeps this many entries
MAX_HISTORY == 10

\* RedisClient(decode_responses=True): get() returns str, which has no .decode()
decode_responses == TRUE

NoSession == [user_id |-> "", conversation_history |-> <<>>, message_count |-> -1]

\* SessionData.__init__
NewSession(user_id) ==
  [user_id |-> user_id, conversation_history |-> <<>>, message_count |-> 0]

\* trimming one entry late: eleven entries survive
TrimHistoryLate(history) ==
  IF Len(history) > MAX_HISTORY + 1 THEN LastN(history, MAX_HISTORY) ELSE history

\* trimming from the wrong end: the oldest ten are kept
TrimHistoryOldest(history) ==
  IF Len(history) > MAX_HISTORY THEN Take(history, MAX_HISTORY) ELSE history

\* the list kept by add_message once the new entry is appended
TrimHistory(history) ==
  IF Len(history) > MAX_HISTORY THEN LastN(history, MAX_HISTORY) ELSE history

\* SessionData.add_message
AddMessage(session, role, content) ==
  [session EXCEPT
     !.conversation_history =
        TrimHistory(Append(session.conversation_history,
                           [role |-> role, content |-> content])),
     !.message_count = session.message_count + 1]

RoleChars(role) ==
  IF role = "user" THEN <<"u", "s", "e", "r">>
  ELSE <<"a", "s", "s", "i", "s", "t", "a", "n", "t">>

\* json.dumps of a string's characters: quotes, backslashes and controls escaped
RECURSIVE JsonEscape(_)
JsonEscape(s) ==
  IF s = <<>> THEN <<>>
  ELSE LET ch == Head(s)
           out == IF ch = "\"" THEN <<"\\", "\"">>
                  ELSE IF ch = "\\" THEN <<"\\", "\\">>
                  ELSE IF ch = "\n" THEN <<"\\", "n">>
                  ELSE IF ch = "\t" THEN <<"\\", "t">>
                  ELSE <<ch>>
       IN out \o JsonEscape(Tail(s))

JsonString(s) == <<"\"">> \o JsonEscape(s) \o <<"\"">>

\* json.dumps({"role": ..., "content": ...})
JsonEntry(e) ==
  <<"{">> \o JsonString(<<"r", "o", "l", "e">>) \o <<":", " ">>
    \o JsonString(RoleChars(e.role)) \o <<",", " ">>
    \o JsonString(<<"c", "o", "n", "t", "e", "n", "t">>) \o <<":", " ">>
    \o JsonString(e.content) \o <<"}">>

\* json.dumps(self.conversation_history)
JsonDumps(history) ==
  <<"[">> \o Join([i \in 1..Len(history) |-> JsonEntry(history[i])], <<",", " ">>)
    \o <<"]">>

\* hashlib.md5(...).hexdigest(): a digest, taken to be collision-free
Md5(text) == <<"md5", text>>

\* SessionData.get_conversation_hash
ConversationHash(session) == Md5(JsonDumps(session.conversation_history))

\* a key that leaves the conversation out
CacheKeyNoHistory(session, user_message) ==
  <<"ai_chat", session.user_id, Md5(user_message)>>

\* f"ai_chat:{session.user_id}:{conversation_hash}:{message_hash}"
CacheKey(session, user_message) ==
  <<"ai_chat", session.user_id, ConversationHash(session), Md5(user_message)>>

----------------------------------------------------------------------------
(* chat_ws: ConnectionManager *)

RegisteredOf(user_id) ==
  IF user_id \in DOMAIN active_connections THEN active_connections[user_id] ELSE {}

\* the limit checked with > instead of >=
ConnectRefusedOffByOne(user_id) ==
  Cardinality(RegisteredOf(user_id)) > WS_MAX_CONNECTIONS_PER_USER

\* ConnectionManager.connect refuses when the user already holds the maximum
ConnectRefused(user_id) ==
  Cardinality(RegisteredOf(user_id)) >= WS_MAX_CONNECTIONS_PER_USER

\* ConnectionManager.connect, accepted: the registry with the connection added
RegistryAdd(registry, user_id, c) ==
  [u \in DOMAIN registry \cup {user_id} |->
     IF u = user_id
     THEN (IF u \in DOMAIN registry THEN registry[u] ELSE {}) \cup {c}
     ELSE registry[u]]

\* ConnectionManager.disconnect: discard, and delete the key of an emptied set
RegistryDiscard(registry, user_id, c) ==
  IF user_id \notin DOMAIN registry THEN registry
  ELSE LET left == registry[user_id] \ {c}
       IN IF left = {}
          THEN [u \in DOMAIN registry \ {user_id} |-> registry[u]]
          ELSE [registry EXCEPT ![user_id] = left]

\* a disconnect that drops the session and leaves the registry as it is
ManagerDisconnectSessionOnly(c) ==
  /\ sessions' = [sessions EXCEPT ![c] = NoSession]
  /\ UNCHANGED active_connections

\* ConnectionManager.disconnect: the new registry and session map
ManagerDisconnect(c) ==
  IF sessions[c] # NoSession
  THEN /\ active_connections' = RegistryDiscard(active_connections, sessions[c].user_id, c)
       /\ sessions' = [sessions EXCEPT ![c] = NoSession]
  ELSE UNCHANGED <<active_connections, sessions>>

\* the except branches of websocket_chat: disconnect only if authenticated
CleanupOnExit(c) ==
  IF authenticated[c] THEN ManagerDisconnect(c)
  ELSE UNCHANGED <<active_connections, sessions>>

----------------------------------------------------------------------------
(* chat_ws: events *)

NoText == <<>>

ConnectedEvent ==
  [type |-> "connected", content |-> NoText, done |-> FALSE, cached |-> FALSE, message |-> "Connected to Wealth Coach AI"]

PongEvent ==
  [type |-> "pong", content |-> NoText, done |-> FALSE, cached |-> FALSE, message |-> ""]

ErrorEvent(message) ==
  [type |-> "error", content |-> NoText, done |-> FALSE, cached |-> FALSE, message |-> message]

ResponseEvent(content, done, cached) ==
  [type |-> "response", content |-> content, done |-> done, cached |-> cached, message |-> ""]

\* manager.send_message as the first event answering a client message
EmitFirst(c, ev) == events' = [events EXCEPT ![c] = <<ev>>]

\* manager.send_message of a further event of the same turn
Emit(c, evs) == events' = [events EXCEPT ![c] = @ \o evs]

\* handle_chat_message's locals; provider_requests counts the
\* chat.completions.create calls chat_stream has made for the turn
NoTurn ==
  [user_message |-> NoText, cache_key |-> <<>>, accumulated |-> NoText,
   provider_requests |-> 0]

FailedToGenerate == ErrorEvent("Failed to generate response. Please try again.")

----------------------------------------------------------------------------
(* chat_ws: websocket_chat, the handshake *)

\* websocket.accept()
Accept(c) ==
  /\ pc[c] = "idle"
  /\ pc' = [pc EXCEPT ![c] = "awaiting_auth"]
  /\ UNCHANGED <<close_reason, client_gone, authenticated, sessions, active_connections,
                 cache, turn, events, log>>
  /\ UNCHANGED svcVars

\* the client closes the transport; the handler learns of it at its next receive
ClientClose(c) ==
  /\ pc[c] \in {"awaiting_auth", "loop", "streaming"}
  /\ ~client_gone[c]
  /\ client_gone' = [client_gone EXCEPT ![c] = TRUE]
  /\ UNCHANGED <<pc, close_reason, authenticated, sessions, active_connections,
                 cache, turn, events, log>>
  /\ UNCHANGED svcVars

\* a timeout branch that reports the timeout in-band before closing
AuthTimeoutSendsError(c) ==
  /\ pc[c] = "awaiting_auth"
  /\ ~client_gone[c]
  /\ pc' = [pc EXCEPT ![c] = "closed"]
  /\ close_reason' = [close_reason EXCEPT ![c] = "Authentication timeout"]
  /\ events' = [events EXCEPT ![c] = <<ErrorEvent("Authentication timeout")>>]
  /\ UNCHANGED <<client_gone, authenticated, sessions, active_connections,
                 cache, turn, log>>
  /\ UNCHANGED svcVars

\* asyncio.wait_for(receive_text(), 30.0) times out: except asyncio.TimeoutError
AuthTimeout(c) ==
  /\ pc[c] = "awaiting_auth"
  /\ ~client_gone[c]
  /\ pc' = [pc EXCEPT ![c] = "closed"]
  /\ close_reason' = [close_reason EXCEPT ![c] = "Authentication timeout"]
  /\ UNCHANGED <<client_gone, authenticated, sessions, active_connections,
                 cache, turn, events, log>>
  /\ UNCHANGED svcVars

\* the reason websocket_chat closes with for a first message it rejects; "" when
\* the error reaches the generic except branch, which closes nothing itself
AuthRejectReason(kind) ==
  CASE kind = "bad_json" -> "Invalid JSON"
    [] kind = "non_object" -> ""
    [] kind = "non_text" -> ""
    [] kind = "wrong_type" -> "Authentication required"
    [] kind = "no_token" -> "Token missing"
    [] kind = "no_user_id" -> "Invalid token"
    [] kind = "bad_token" -> "Authentication failed"

\* the first message is rejected before manager.connect is reached
AuthReject(c, kind) ==
  /\ pc[c] = "awaiting_auth"
  /\ ~client_gone[c]
  /\ kind # "valid"
  /\ pc' = [pc EXCEPT ![c] = "closed"]
  /\ close_reason' = [close_reason EXCEPT ![c] = AuthRejectReason(kind)]
  /\ UNCHANGED <<client_gone, authenticated, sessions, active_connections,
                 cache, turn, events, log>>
  /\ UNCHANGED svcVars

\* a valid token of user_id while the user holds the maximum: connect returns False
AuthRefused(c, user_id) ==
  /\ pc[c] = "awaiting_auth"
  /\ ~client_gone[c]
  /\ ConnectRefused(user_id)
  /\ pc' = [pc EXCEPT ![c] = "closed"]
  /\ close_reason' = [close_reason EXCEPT ![c] = "Max connections reached"]
  /\ UNCHANGED <<client_gone, authenticated, sessions, active_connections,
                 cache, turn, events, log>>
  /\ UNCHANGED svcVars

\* a valid token of user_id: connect registers, the connected event is sent
AuthAccepted(c, user_id) ==
  /\ pc[c] = "awaiting_auth"
  /\ ~client_gone[c]
  /\ ~ConnectRefused(user_id)
  /\ active_connections' = RegistryAdd(active_connections, user_id, c)
  /\ sessions' = [sessions EXCEPT ![c] = NewSession(user_id)]
  /\ authenticated' = [authenticated EXCEPT ![c] = TRUE]
  /\ EmitFirst(c, ConnectedEvent)
  /\ pc' = [pc EXCEPT ![c] = "loop"]
  /\ UNCHANGED <<close_reason, client_gone, cache, turn, log>>
  /\ UNCHANGED svcVars

\* receive_text raises WebSocketDisconnect: except WebSocketDisconnect
ReceiveDisconnect(c) ==
  /\ pc[c] \in {"awaiting_auth", "loop"}
  /\ client_gone[c]
  /\ CleanupOnExit(c)
  /\ pc' = [pc EXCEPT ![c] = "closed"]
  /\ UNCHANGED <<close_reason, client_gone, authenticated, cache, turn, events, log>>
  /\ UNCHANGED svcVars

----------------------------------------------------------------------------
(* chat_ws: websocket_chat, the message loop *)

InLoop(c) == pc[c] = "loop" /\ ~client_gone[c]

\* json.loads fails: the error event, continue
RecvInvalidJson(c) ==
  /\ InLoop(c)
  /\ EmitFirst(c, ErrorEvent("Invalid JSON format"))
  /\ UNCHANGED <<pc, close_reason, client_gone, authenticated, sessions,
                 active_connections, cache, turn, log>>
  /\ UNCHANGED svcVars

\* an error escapes the loop (the JSON is no object, so message.get raises; or
\* the content is no string, so .strip() raises ahead of the turn's try):
\* except Exception, disconnect if authenticated
RecvCrash(c) ==
  /\ InLoop(c)
  /\ CleanupOnExit(c)
  /\ pc' = [pc EXCEPT ![c] = "closed"]
  /\ events' = [events EXCEPT ![c] = <<>>]
  /\ UNCHANGED <<close_reason, client_gone, authenticated, cache, turn, log>>
  /\ UNCHANGED svcVars

\* {"type": "message"} whose content is no string (a number, null, a list):
\* message.get("content", "").strip() raises AttributeError ahead of the turn's
\* try block; the error leaves handle_chat_message and the loop and reaches
\* websocket_chat's except Exception
RecvChatNonString(c, content_kind) ==
  /\ InLoop(c)
  /\ content_kind \in {"number", "null", "list"}
  /\ CleanupOnExit(c)
  /\ pc' = [pc EXCEPT ![c] = "closed"]
  /\ events' = [events EXCEPT ![c] = <<>>]
  /\ UNCHANGED <<close_reason, client_gone, authenticated, cache, turn, log>>
  /\ UNCHANGED svcVars

\* {"type": "ping"}
RecvPing(c) ==
  /\ InLoop(c)
  /\ EmitFirst(c, PongEvent)
  /\ UNCHANGED <<pc, close_reason, client_gone, authenticated, sessions,
                 active_connections, cache, turn, log>>
  /\ UNCHANGED svcVars

\* any other type
RecvUnknownType(c) ==
  /\ InLoop(c)
  /\ EmitFirst(c, ErrorEvent("Unknown message type"))
  /\ UNCHANGED <<pc, close_reason, client_gone, authenticated, sessions,
                 active_connections, cache, turn, log>>
  /\ UNCHANGED svcVars

----------------------------------------------------------------------------
(* chat_ws: handle_chat_message *)

\* redis_client.get(cache_key): the stored text, or NoText for a missing key
CacheGet(key) == IF key \in DOMAIN cache THEN cache[key] ELSE NoText

\* redis_client.set(cache_key, value, ex=120)
CacheSet(key, value) ==
  [k \in DOMAIN cache \cup {key} |-> IF k = key THEN value ELSE cache[k]]

\* {"type": "message"} whose stripped content is empty
RecvChatEmpty(c, content) ==
  /\ InLoop(c)
  /\ Strip(content) = NoText
  /\ EmitFirst(c, ErrorEvent("Empty message"))
  /\ UNCHANGED <<pc, close_reason, client_gone, authenticated, sessions,
                 active_connections, cache, turn, log>>
  /\ UNCHANGED svcVars

\* get_redis_client() or redis_client.get() raises: the turn's except branch
RecvChatCacheDown(c, content) ==
  /\ InLoop(c)
  /\ Strip(content) # NoText
  /\ EmitFirst(c, FailedToGenerate)
  /\ UNCHANGED <<pc, close_reason, client_gone, authenticated, sessions,
                 active_connections, cache, turn, log>>
  /\ UNCHANGED svcVars

\* the two add_message calls that end a turn
AddExchange(session, user_message, reply) ==
  AddMessage(AddMessage(session, "user", user_message), "assistant", reply)

LogExchange(c, user_message, reply) ==
  log' = [log EXCEPT ![c] = @ \o <<[role |-> "user", content |-> user_message],
                                   [role |-> "assistant", content |-> reply]>>]

\* the key holds a non-empty text: cached_response.decode('utf-8') is reached.
\* On the str that RedisClient returns it raises AttributeError, caught by the
\* turn's except branch; on bytes the cached response is sent and recorded.
RecvChatHit(c, content) ==
  LET user_message == Strip(content)
      cached_response == CacheGet(CacheKey(sessions[c], user_message))
  IN /\ InLoop(c)
     /\ user_message # NoText
     /\ cached_response # NoText
     /\ IF decode_responses
        THEN /\ EmitFirst(c, FailedToGenerate)
             /\ UNCHANGED <<sessions, log>>
        ELSE /\ EmitFirst(c, ResponseEvent(cached_response, TRUE, TRUE))
             /\ sessions' = [sessions EXCEPT
                               ![c] = AddExchange(@, user_message, cached_response)]
             /\ LogExchange(c, user_message, cached_response)
     /\ UNCHANGED <<pc, close_reason, client_gone, authenticated,
                    active_connections, cache, turn>>
     /\ UNCHANGED svcVars

\* no text under the key: the stream is opened
RecvChatMiss(c, content) ==
  LET user_message == Strip(content)
      cache_key == CacheKey(sessions[c], user_message)
  IN /\ InLoop(c)
     /\ user_message # NoText
     /\ CacheGet(cache_key) = NoText
     /\ turn' = [turn EXCEPT ![c] = [user_message |-> user_message,
                                      cache_key |-> cache_key,
                                      accumulated |-> NoText,
                                      provider_requests |-> 1]]
     /\ events' = [events EXCEPT ![c] = <<>>]
     /\ pc' = [pc EXCEPT ![c] = "streaming"]
     /\ UNCHANGED <<close_reason, client_gone, authenticated, sessions,
                    active_connections, cache, log>>
     /\ UNCHANGED svcVars

\* a partial event carrying the chunk alone instead of the text so far
StreamChunkDelta(c, chunk) ==
  /\ pc[c] = "streaming"
  /\ chunk # NoText
  /\ turn' = [turn EXCEPT ![c].accumulated = @ \o chunk]
  /\ Emit(c, <<ResponseEvent(chunk, FALSE, FALSE)>>)
  /\ UNCHANGED <<pc, close_reason, client_gone, authenticated, sessions,
                 active_connections, cache, log>>
  /\ UNCHANGED svcVars

\* one chunk of llm_client.chat_stream: accumulate, send the text so far.
\* send_message swallows the send error of a transport the client has closed.
StreamChunk(c, chunk) ==
  /\ pc[c] = "streaming"
  /\ chunk # NoText
  /\ turn' = [turn EXCEPT ![c].accumulated = @ \o chunk]
  /\ Emit(c, <<ResponseEvent(turn[c].accumulated \o chunk, FALSE, FALSE)>>)
  /\ UNCHANGED <<pc, close_reason, client_gone, authenticated, sessions,
                 active_connections, cache, log>>
  /\ UNCHANGED svcVars

\* a failing stream that leaves the user's message of the turn in the history
StreamFailKeepsUserMessage(c) ==
  /\ pc[c] = "streaming"
  /\ Emit(c, <<FailedToGenerate>>)
  /\ sessions' = [sessions EXCEPT ![c] = AddMessage(@, "user", turn[c].user_message)]
  /\ log' = [log EXCEPT
               ![c] = Append(@, [role |-> "user", content |-> turn[c].user_message])]
  /\ turn' = [turn EXCEPT ![c] = NoTurn]
  /\ pc' = [pc EXCEPT ![c] = "loop"]
  /\ UNCHANGED <<close_reason, client_gone, authenticated, active_connections, cache>>
  /\ UNCHANGED svcVars

\* chat_stream raises (at the request or in mid-stream): the turn's except branch
StreamFail(c) ==
  /\ pc[c] = "streaming"
  /\ Emit(c, <<FailedToGenerate>>)
  /\ turn' = [turn EXCEPT ![c] = NoTurn]
  /\ pc' = [pc EXCEPT ![c] = "loop"]
  /\ UNCHANGED <<close_reason, client_gone, authenticated, sessions,
                 active_connections, cache, log>>
  /\ UNCHANGED svcVars

\* accumulated.strip()
FinalResponse(accumulated) == Strip(accumulated)

\* the stream ends: the final event, the cache write, the two add_message calls
StreamEnd(c) ==
  LET final_response == FinalResponse(turn[c].accumulated)
  IN /\ pc[c] = "streaming"
     /\ Emit(c, <<ResponseEvent(final_response, TRUE, FALSE)>>)
     /\ cache' = CacheSet(turn[c].cache_key, final_response)
     /\ sessions' = [sessions EXCEPT
                       ![c] = AddExchange(@, turn[c].user_message, final_response)]
     /\ LogExchange(c, turn[c].user_message, final_response)
     /\ turn' = [turn EXCEPT ![c] = NoTurn]
     /\ pc' = [pc EXCEPT ![c] = "loop"]
     /\ UNCHANGED <<close_reason, client_gone, authenticated, active_connections>>
     /\ UNCHANGED svcVars

\* the stream ends and redis_client.set raises: the final event was sent, the
\* except branch sends the error event, nothing is recorded
StreamEndCacheDown(c) ==
  LET final_response == FinalResponse(turn[c].accumulated)
  IN /\ pc[c] = "streaming"
     /\ Emit(c, <<ResponseEvent(final_response, TRUE, FALSE), FailedToGenerate>>)
     /\ turn' = [turn EXCEPT ![c] = NoTurn]
     /\ pc' = [pc EXCEPT ![c] = "loop"]
     /\ UNCHANGED <<close_reason, client_gone, authenticated, sessions,
                    active_connections, cache, log>>
     /\ UNCHANGED svcVars

\* a cached response outlives its 120 seconds
CacheExpire(key) ==
  /\ key \in DOMAIN cache
  /\ cache' = [k \in DOMAIN cache \ {key} |-> cache[k]]
  /\ UNCHANGED <<pc, close_reason, client_gone, authenticated, sessions,
                 active_connections, turn, events, log>>
  /\ UNCHANGED svcVars

----------------------------------------------------------------------------
(* api/v1/chat.py: send_message, send_message_stream and what they persist *)

\* history[-3:]: how many trailing history messages enter the cache key
KEY_HISTORY == 3

\* .limit(10): how many stored messages of the session are loaded for the prompt
DB_HISTORY_LIMIT == 10

\* conversation_history[-10:]: how many history messages enter the prompt
PROMPT_HISTORY == 10

\* hashlib.sha256(text.encode()).hexdigest(): one digest per text
Sha256(text) == <<"sha256", text>>

\* [m.content for m in history]
ContentsOf(history) == [i \in 1..Len(history) |-> history[i].content]

\* _generate_cache_key(message, history): the message and the last three
\* history contents; the requesting user is no part of it
ChatGenerateCacheKey(message, history) ==
  LET history_text == Join(ContentsOf(LastN(history, KEY_HISTORY)), <<" ">>)
      cache_input == history_text \o <<"|">> \o message
  IN  <<"chat:response", Sha256(cache_input)>>

\* the rows of one session, oldest first
SessionMessages(session_id) ==
  SelectSeq(chat_messages, LAMBDA row : row.session_id = session_id)

\* Message(role=msg.role, content=msg.content) of a stored row
AsMessage(row) == [role |-> row.role, content |-> row.content]

\* the history query of both endpoints: the last ten rows whose session_id is
\* the request's, oldest first; whose session it is is not asked
LoadHistory(session_id) ==
  IF session_id = 0 THEN <<>>
  ELSE LET recent_messages == LastN(SessionMessages(session_id), DB_HISTORY_LIMIT)
       IN  [i \in 1..Len(recent_messages) |-> AsMessage(recent_messages[i])]

\* _build_system_prompt(context_documents, user_profile): the coach's prompt,
\* the retrieved context and the profile of the requesting user
BuildSystemPrompt(sources, user_id) == <<"system prompt">> \o sources \o <<user_id>>

\* _build_conversation_messages: system prompt, last ten of the history, the message
BuildConversationMessages(system_prompt, conversation_history, user_message) ==
  <<[role |-> "system", content |-> system_prompt]>>
    \o LastN(conversation_history, PROMPT_HISTORY)
    \o <<[role |-> "user", content |-> user_message]>>

\* the session query of both endpoints: the named session, if the user owns it
OwnedSession(session_id, user_id) ==
  /\ session_id # 0
  /\ session_id \in DOMAIN chat_sessions
  /\ chat_sessions[session_id] = user_id

\* str(uuid.uuid4()): an id no session has
NewSessionId == Cardinality(DOMAIN chat_sessions) + 1

\* get or create: the owned session, else a new one of the user
SessionFor(session_id, user_id) ==
  IF OwnedSession(session_id, user_id) THEN session_id ELSE NewSessionId

\* the ChatSession table after get or create
SessionsWith(session, user_id) ==
  [s \in DOMAIN chat_sessions \cup {session} |->
     IF s \in DOMAIN chat_sessions THEN chat_sessions[s] ELSE user_id]

ChatMessageRow(session, role, content) ==
  [session_id |-> session, role |-> role, content |-> content]

\* ChatResponse(**json.loads(cached_response), cached=True) with a stored dict
\* that was never stored with its "cached" key
CachedKeywordNeverClashes(cache_data) == FALSE

\* ChatResponse(**json.loads(cached_response), cached=True): the keyword cached
\* is given twice when the stored dict has the key, which is a TypeError
CachedKeywordClash(cache_data) == "cached" \in DOMAIN cache_data

\* chat_response.dict() through json.dumps and json.loads: every field of
\* ChatResponse is a key (the timestamp and the token count are left out here)
CacheData(chat_response) ==
  [response |-> chat_response.response, sources |-> chat_response.sources,
   conversation_id |-> chat_response.conversation_id,
   cached |-> chat_response.cached]

\* no HTTP chat request yet
NoRequest ==
  [endpoint |-> "", user_id |-> "", message |-> <<>>, conversation_history |-> <<>>,
   session_id |-> 0, cached_response |-> <<>>, db_conversation_history |-> <<>>,
   messages |-> <<>>, llm_called |-> FALSE, session |-> 0, status |-> 0,
   response |-> <<>>, streaming |-> FALSE]

\* POST /chat/message.  cache_get and cache_set say whether Redis answers;
\* sources is what rag.retrieve found (none when use_rag is off or it failed);
\* chat is how llm.chat ends, with response_text when it returns.
SendMessage(user_id, message, conversation_history, session_id, cache_get, sources, chat, response_text, cache_set) ==
  LET cache_key == ChatGenerateCacheKey(message, conversation_history)
      \* await redis.get(cache_key): the stored dict if any, inside try/except
      cached_response ==
        IF cache_get = "ok" /\ cache_key \in DOMAIN response_cache
        THEN <<response_cache[cache_key]>> ELSE <<>>
      hit == cached_response # <<>> /\ ~CachedKeywordClash(cached_response[1])
      db_conversation_history == LoadHistory(session_id)
      combined_history ==
        IF db_conversation_history # <<>> THEN db_conversation_history
        ELSE conversation_history
      messages ==
        BuildConversationMessages(BuildSystemPrompt(sources, user_id),
                                  combined_history, message)
      session == SessionFor(session_id, user_id)
      chat_response ==
        [response |-> response_text, sources |-> sources,
         conversation_id |-> session, cached |-> FALSE]
      request ==
        [NoRequest EXCEPT !.endpoint = "send_message", !.user_id = user_id,
                          !.message = message,
                          !.conversation_history = conversation_history,
                          !.session_id = session_id,
                          !.cached_response = cached_response]
      prompted ==
        [request EXCEPT !.db_conversation_history = db_conversation_history,
                        !.messages = messages, !.llm_called = TRUE]
  IN
  IF hit THEN
    \* return ChatResponse(**json.loads(cached_response), cached=True)
    /\ http' = [request EXCEPT
                  !.status = 200,
                  !.response = <<[cached_response[1] EXCEPT !.cached = TRUE]>>]
    /\ UNCHANGED <<chat_sessions, chat_messages, response_cache>>
    /\ UNCHANGED <<wsVars, ragVars, llmVars, embVars, history_files>>
  ELSE IF chat = "raise" THEN
    \* HTTPException(500, "Failed to generate response"), before anything is saved
    /\ http' = [prompted EXCEPT !.status = 500]
    /\ UNCHANGED <<chat_sessions, chat_messages, response_cache>>
    /\ UNCHANGED <<wsVars, ragVars, llmVars, embVars, history_files>>
  ELSE
    \* get or create the session, add both rows, db.commit()
    /\ chat_sessions' = SessionsWith(session, user_id)
    /\ chat_messages' = chat_messages
                          \o <<ChatMessageRow(session, "user", message),
                               ChatMessageRow(session, "assistant", response_text)>>
    /\ IF sources # <<>> THEN
         \* ChatResponse(sources=sources): sources is List[dict], the retriever's
         \* sources are strings, and the validation error leaves the handler
         /\ http' = [prompted EXCEPT !.session = session, !.status = 500]
         /\ UNCHANGED response_cache
       ELSE
         \* redis.set(cache_key, json.dumps(cache_data), ex=QUERY_CACHE_TTL),
         \* inside try/except
         /\ response_cache' =
              IF cache_set = "ok"
              THEN [k \in DOMAIN response_cache \cup {cache_key} |->
                      IF k = cache_key THEN CacheData(chat_response)
                      ELSE response_cache[k]]
              ELSE response_cache
         /\ http' = [prompted EXCEPT !.session = session, !.status = 200,
                                     !.response = <<chat_response>>]
    /\ UNCHANGED <<wsVars, ragVars, llmVars, embVars, history_files>>

\* POST /chat/message/stream up to its StreamingResponse: the prompt is built
\* and the user's row is committed; the generator then runs (GenerateStream)
SendMessageStream(user_id, message, conversation_history, session_id, sources) ==
  LET db_conversation_history == LoadHistory(session_id)
      combined_history ==
        IF db_conversation_history # <<>> THEN db_conversation_history
        ELSE conversation_history
      messages ==
        BuildConversationMessages(BuildSystemPrompt(sources, user_id),
                                  combined_history, message)
      session == SessionFor(session_id, user_id)
  IN
  /\ chat_sessions' = SessionsWith(session, user_id)
  /\ chat_messages' = chat_messages \o <<ChatMessageRow(session, "user", message)>>
  /\ http' = [NoRequest EXCEPT
                !.endpoint = "send_message_stream", !.user_id = user_id,
                !.message = message, !.conversation_history = conversation_history,
                !.session_id = session_id,
                !.db_conversation_history = db_conversation_history,
                !.messages = messages, !.llm_called = TRUE, !.session = session,
                !.status = 200, !.streaming = TRUE]
  /\ UNCHANGED response_cache
  /\ UNCHANGED <<wsVars, ragVars, llmVars, embVars, history_files>>

\* generate_stream of the latest streaming request, run to its end: after the
\* done event the assistant's row is saved; a failing llm.chat_stream or a
\* failing save leaves the table as it is.  A stream a later request overtakes
\* is one whose client went away.
GenerateStream(stream, full_response) ==
  /\ http.streaming
  /\ chat_messages' =
       IF stream = "ok"
       THEN chat_messages \o <<ChatMessageRow(http.session, "assistant", full_response)>>
       ELSE chat_messages
  /\ http' = [http EXCEPT !.streaming = FALSE]
  /\ UNCHANGED <<chat_sessions, response_cache>>
  /\ UNCHANGED <<wsVars, ragVars, llmVars, embVars, history_files>>

\* QUERY_CACHE_TTL runs out for one key of the response cache
ResponseCacheExpire(key) ==
  /\ key \in DOMAIN response_cache
  /\ response_cache' = [k \in DOMAIN response_cache \ {key} |-> response_cache[k]]
  /\ UNCHANGED <<chat_sessions, chat_messages, http>>
  /\ UNCHANGED <<wsVars, ragVars, llmVars, embVars, history_files>>

----------------------------------------------------------------------------
(* services/chat_history.py: ChatHistoryService *)

\* append_message(user_id, session_id, role, content): the session file of the
\* user, created with its header when missing, with one more message block
AppendMessage(files, user_id, session_id, role, content) ==
  LET file_path == <<user_id, session_id>>
      existing == IF file_path \in DOMAIN files THEN files[file_path]
                  ELSE <<[role |-> "header", content |-> <<>>]>>
  IN  [f \in DOMAIN files \cup {file_path} |->
         IF f = file_path THEN Append(existing, [role |-> role, content |-> content])
         ELSE files[f]]

----------------------------------------------------------------------------
(* The retriever's environment: what the vector store may return *)

\* the longest list the vector store returns
MaxCandidates == 3

MaxLens == {120, 150, 400}

Candidates ==
  { [id |-> <<"1">>, content |-> Rep(5, "x"), source |-> <<"a">>, similarity |-> 90],
    [id |-> <<"2">>, content |-> Rep(35, "y"), source |-> <<"a">>, similarity |-> 70],
    [id |-> <<"3">>, content |-> Rep(85, "x"), source |-> <<"a">>, similarity |-> 90],
    [id |-> <<"4">>, content |-> Rep(135, "z"), source |-> <<"b", "b">>, similarity |-> 80],
    [id |-> <<"5">>, content |-> Rep(35, "y") \o <<" ">>, source |-> <<"b", "b">>,
     similarity |-> 60],
    [id |-> <<"6">>, content |-> Rep(200, "w") \o <<"1">>, source |-> <<"b", "b">>,
     similarity |-> 70],
    [id |-> <<"7">>, content |-> Rep(200, "w") \o <<"2">>, source |-> <<"a">>,
     similarity |-> 90] }

CandidateLists == UNION { [1..n -> Candidates] : n \in 0..MaxCandidates }

\* settings.RAG_MAX_CONTEXT_LENGTH
RAG_MAX_CONTEXT_LENGTH == 2000

\* settings.RAG_TOP_K
RAG_TOP_K == 5

\* the retriever as get_retriever() builds it, nothing retrieved
RetrieverAtRest ==
  /\ max_context_length = RAG_MAX_CONTEXT_LENGTH
  /\ top_k = RAG_TOP_K
  /\ similarity_threshold = RAG_SIMILARITY_THRESHOLD
  /\ store = <<>>
  /\ retrieval = NoRetrieval

\* LLMClient.__init__: no call yet, fresh statistics, an empty cache
LLMAtRest ==
  /\ llm = ChatIdle
  /\ llm_cache = <<>>
  /\ llm_stats = [total_requests |-> 0, cache_hits |-> 0, cache_misses |-> 0,
                  errors |-> 0]

\* EmbeddingService.__init__: no call yet, an empty cache
EmbeddingsAtRest ==
  /\ embedding_cache = <<>>
  /\ embedded = NotEmbedded

\* empty tables, an empty response cache, no request yet, no session file
HTTPAtRest ==
  /\ chat_sessions = <<>>
  /\ chat_messages = <<>>
  /\ response_cache = <<>>
  /\ http = NoRequest
  /\ history_files = <<>>

----------------------------------------------------------------------------
(* The chat protocol's environment: connections, users, client messages *)

\* how many WebSocket connections are ever opened
NumConns == 4

Conns == 1..NumConns

Users == {"u1", "u2"}

AuthRejectKinds ==
  {"bad_json", "non_object", "non_text", "wrong_type", "no_token", "no_user_id",
   "bad_token"}

\* no connection accepted yet, nothing cached
InitWS ==
  /\ pc = [c \in Conns |-> "idle"]
  /\ close_reason = [c \in Conns |-> ""]
  /\ client_gone = [c \in Conns |-> FALSE]
  /\ authenticated = [c \in Conns |-> FALSE]
  /\ sessions = [c \in Conns |-> NoSession]
  /\ active_connections = <<>>
  /\ cache = <<>>
  /\ turn = [c \in Conns |-> NoTurn]
  /\ events = [c \in Conns |-> <<>>]
  /\ log = [c \in Conns |-> <<>>]

Init == InitWS /\ RetrieverAtRest /\ LLMAtRest /\ EmbeddingsAtRest /\ HTTPAtRest

\* connections come and go: accepted, authenticated as some user or timed out,
\* closed by the client or by an error that escapes the message loop
Lifecycle(c) ==
  \/ Accept(c)
  \/ ClientClose(c)
  \/ AuthTimeout(c)
  \/ \E user_id \in Users : AuthRefused(c, user_id)
  \/ \E user_id \in Users : AuthAccepted(c, user_id)
  \/ ReceiveDisconnect(c)
  \/ RecvCrash(c)

Next == \E c \in Conns : Lifecycle(c)

\* the connection registry: NumConns connections of two users
Spec == Init /\ [][Next]_vars

----------------------------------------------------------------------------
(* The handshake: two connections, every kind of first message *)

\* what a client may send that starts no chat turn
Chatter(c) ==
  \/ RecvInvalidJson(c)
  \/ RecvPing(c)
  \/ RecvUnknownType(c)

Handshake(c) ==
  \/ Accept(c)
  \/ ClientClose(c)
  \/ AuthTimeout(c)
  \/ \E kind \in AuthRejectKinds : AuthReject(c, kind)
  \/ \E user_id \in Users : AuthAccepted(c, user_id)
  \/ ReceiveDisconnect(c)
  \/ RecvCrash(c)

NextAuth == \E c \in {1, 2} : Handshake(c) \/ Chatter(c)

SpecAuth == Init /\ [][NextAuth]_vars

----------------------------------------------------------------------------
(* One authenticated connection and its chat turns *)

\* one client that authenticates as u1 and may leave at any time
OneClient(c) ==
  \/ Accept(c)
  \/ AuthAccepted(c, "u1")
  \/ ClientClose(c)
  \/ ReceiveDisconnect(c)

\* the client's chat messages: their contents, and the message_count up to
\* which a new stream is opened
Messages(c, contents, maxCount) ==
  \E content \in contents :
    \/ RecvChatEmpty(c, content)
    \/ RecvChatCacheDown(c, content)
    \/ /\ pc[c] = "loop"
       /\ sessions[c].message_count < maxCount
       /\ RecvChatMiss(c, content)

\* the LLM's streams: their chunks, and how many chunks a stream has
Streams(c, chunks, minChunks, maxChunks) ==
  \/ \E chunk \in chunks :
       /\ Len(events[c]) < maxChunks
       /\ StreamChunk(c, chunk)
  \/ StreamFail(c)
  \/ /\ Len(events[c]) >= minChunks
     /\ \/ StreamEnd(c)
        \/ StreamEndCacheDown(c)

\* the streams of SpecStream are at most this many chunks long
MaxStreamChunks == 2

\* SpecStream completes at most this many turns
MaxStreamTurns == 2

StreamContents == { <<"h", "i">>, <<" ">> }

StreamChunks == { <<"a">>, <<" ">> }

NextStream ==
  \/ OneClient(1)
  \/ Chatter(1)
  \/ Messages(1, StreamContents, 2 * MaxStreamTurns)
  \/ Streams(1, StreamChunks, 0, MaxStreamChunks)
  \/ \E key \in DOMAIN cache : CacheExpire(key)

\* one connection, few turns, streams of every shape, cache entries expiring
SpecStream == Init /\ [][NextStream]_vars

\* SpecSession completes at most this many turns
MaxSessionTurns == 11

SessionContents == { <<"x">>, <<"y">>, <<" ">> }

SessionChunks == { <<"o", "k">> }

NextSession ==
  \/ OneClient(1)
  \/ Messages(1, SessionContents, 2 * MaxSessionTurns)
  \/ \E content \in SessionContents : RecvChatHit(1, content)
  \/ Streams(1, SessionChunks, 1, 1)

\* one connection, many turns, one-chunk streams, within the cache's lifetime
SpecSession == Init /\ [][NextSession]_vars

----------------------------------------------------------------------------
(* Two connections sharing the response cache *)

\* each connection of SpecCache completes at most this many turns
MaxCacheTurns == 1

CacheContents == { <<"h", "i">>, <<"\"">>, <<" ">> }

CacheChunks == { <<"o", "k">> }

\* a client that authenticates as either user
AnyClient(c) ==
  \/ Accept(c)
  \/ \E user_id \in Users : AuthAccepted(c, user_id)
  \/ ClientClose(c)
  \/ ReceiveDisconnect(c)

NextCache ==
  \E c \in {1, 2} :
    \/ \E content \in CacheContents : RecvChatHit(c, content)
    \/ AnyClient(c)
    \/ Messages(c, CacheContents, 2 * MaxCacheTurns)
    \/ \E content_kind \in {"number", "null"} : RecvChatNonString(c, content_kind)
    \/ Streams(c, CacheChunks, 1, 1)

\* two connections of one or two users, within the cache's lifetime
SpecCache == Init /\ [][NextCache]_vars

----------------------------------------------------------------------------
(* The LLM client alone *)

\* chat() is called until the statistics have counted this many outcomes
MaxLLMOutcomes == 4

LLMMessages == {"m1", "m2"}

\* what the provider answers: message.content or "" when it is None
LLMContents == {"r1", "r2", ""}

NextLLM ==
  \/ /\ llm_stats.total_requests + llm_stats.errors < MaxLLMOutcomes
     /\ \E messages \in LLMMessages, use_cache \in BOOLEAN : ChatCall(messages, use_cache)
  \/ \E cache_get \in {"ok", "raise"}, provider \in ProviderOutcomes,
        content \in LLMContents, cache_set \in {"ok", "raise"} :
       ChatAttempt(cache_get, provider, content, cache_set)

SpecLLM == Init /\ [][NextLLM]_vars

----------------------------------------------------------------------------
(* The embedding service alone *)

\* embed_batch is called with at most this many texts
MaxBatch == 2

EmbedTexts == {"t1", "t2"}

Batches == UNION {[1..n -> EmbedTexts] : n \in 0..MaxBatch}

NextEmbed ==
  \/ \E texts \in Batches :
       \E get_fails \in SUBSET (1..Len(texts)), set_fails \in {{}, 1..Len(texts)},
          encode \in {"ok", "raise"} :
         EmbedBatch(texts, get_fails, set_fails, encode)
  \/ \E text \in EmbedTexts : EmbeddingExpire(text)

SpecEmbed == Init /\ [][NextEmbed]_vars

----------------------------------------------------------------------------
(* The retriever alone *)

\* similarity_threshold or settings.RAG_SIMILARITY_THRESHOLD: 0 falls back
Thresholds == {50, RAG_SIMILARITY_THRESHOLD}

InitRAG ==
  /\ InitWS
  /\ LLMAtRest
  /\ EmbeddingsAtRest
  /\ HTTPAtRest
  /\ max_context_length \in MaxLens
  /\ top_k \in {2, 5}
  /\ similarity_threshold \in Thresholds
  /\ store \in CandidateLists
  /\ retrieval = NoRetrieval

NextRAG ==
  \E arg_k \in {0, 1}, embed \in {"ok", "raise"}, search \in {"ok", "raise"} :
    Retrieve(arg_k, embed, search)

SpecRAG == InitRAG /\ [][NextRAG]_vars

----------------------------------------------------------------------------
(* The HTTP chat endpoints: two users, the tables and the response cache *)

\* how many rows the ChatMessage table ever holds
MaxChatRows == 4

HttpMessages == {<<"h", "i">>, <<"y", "o">>}

\* the conversation_history a request carries
HttpHistories == {<<>>, <<[role |-> "user", content |-> <<"y", "o">>]>>}

HttpReplies == {<<"o", "k">>}

\* what rag.retrieve reports as sources: nothing, or one source name
HttpSources == {<<>>, <<"a">>}

\* no session, a stored session, or an id no session has
RequestSessionIds == {0} \cup DOMAIN chat_sessions \cup {MaxChatRows + 1}

\* buffered requests of both users, Redis up or down, and expiring cache entries
NextHTTP ==
  \/ \E user_id \in Users, message \in HttpMessages,
        conversation_history \in HttpHistories, session_id \in RequestSessionIds,
        cache_get \in {"ok", "raise"}, sources \in HttpSources,
        chat \in {"ok", "raise"}, response_text \in HttpReplies,
        cache_set \in {"ok", "raise"} :
       /\ Len(chat_messages) + 2 <= MaxChatRows
       /\ SendMessage(user_id, message, conversation_history, session_id, cache_get,
                      sources, chat, response_text, cache_set)
  \/ \E key \in DOMAIN response_cache : ResponseCacheExpire(key)

SpecHTTP == Init /\ [][NextHTTP]_vars

\* both endpoints with Redis up and the LLM answering: sessions and their rows
NextHistory ==
  \/ \E user_id \in Users, message \in HttpMessages,
        conversation_history \in HttpHistories, session_id \in RequestSessionIds :
       /\ Len(chat_messages) + 2 <= MaxChatRows
       /\ SendMessage(user_id, message, conversation_history, session_id, "ok",
                      <<>>, "ok", <<"o", "k">>, "ok")
  \/ \E user_id \in Users, message \in HttpMessages,
        conversation_history \in HttpHistories, session_id \in RequestSessionIds,
        sources \in HttpSources :
       /\ Len(chat_messages) + 2 <= MaxChatRows
       /\ SendMessageStream(user_id, message, conversation_history, session_id, sources)
  \/ \E stream \in {"ok", "raise"}, full_response \in HttpReplies :
       GenerateStream(stream, full_response)

SpecHistory == Init /\ [][NextHistory]_vars

----------------------------------------------------------------------------
(* Properties *)

Registered(c) == \E u \in DOMAIN active_connections : c \in active_connections[u]

\* C1: whatever the store returns and whatever max_context_length is, the
\* context string retrieve returns is at most max_context_length characters
\* long, separators and truncation marker included.
C1_ContextWithinBudget ==
  retrieval.called => Len(retrieval.result.context) <= max_context_length

\* C4: when embedding the query or the similarity search raises, retrieve
\* does not raise and returns no documents, an empty context and no sources.
C4_RetrieveDegradesGracefully ==
  (retrieval.called /\ (retrieval.embed = "raise" \/ retrieval.search = "raise"))
    => /\ ~retrieval.result.raised
       /\ retrieval.result.documents = <<>>
       /\ retrieval.result.context = <<>>
       /\ retrieval.result.sources = <<>>
       /\ retrieval.result.total_found = 0

\* the search raised although the store holds documents above the threshold
C4_Witness ==
  /\ retrieval.called
  /\ retrieval.embed = "ok"
  /\ retrieval.search = "raise"
  /\ ProcessResults(store, similarity_threshold) # <<>>
  /\ retrieval.result.documents = <<>>

\* C2: in every reachable state of a connection's session, after any run of
\* chat turns (streamed, served from the cache, failed), the conversation
\* history holds at most 10 entries.
C2_HistoryBounded ==
  \A c \in Conns :
    /\ Len(sessions[c].conversation_history) <= 10
    \* and so after one more add_message call, as between the two of a turn
    /\ Len(AddMessage(sessions[c], "user", <<"x">>).conversation_history) <= 10

\* a session that has trimmed: more than ten messages added, ten kept
C2_Witness ==
  \E c \in Conns :
    /\ sessions[c].message_count > 10
    /\ Len(sessions[c].conversation_history) = 10

\* the last min(n, 10) entries of a list of n
Latest10(entries) ==
  IF Len(entries) <= 10 THEN entries
  ELSE [i \in 1..10 |-> entries[Len(entries) - 10 + i]]

\* C3: after n add_message calls on a session its history is exactly the last
\* min(n, 10) messages added, in the order added; after 11 completed turns
\* (22 entries) that is the 10 most recent entries.
C3_HistoryIsLatestTen ==
  \A c \in Conns :
    sessions[c] # NoSession =>
      /\ sessions[c].message_count = Len(log[c])
      /\ sessions[c].conversation_history = Latest10(log[c])
      \* and so after one more add_message call, as between the two of a turn
      /\ LET entry == [role |-> "user", content |-> <<"x">>]
         IN AddMessage(sessions[c], entry.role, entry.content).conversation_history
              = Latest10(Append(log[c], entry))

\* eleven completed turns on one session
C3_Witness ==
  \E c \in Conns :
    /\ sessions[c] # NoSession
    /\ Len(log[c]) = 22
    /\ sessions[c].conversation_history[1] = log[c][13]

\* C5: under every interleaving of the connections' connects and disconnects
\* no user holds more than WS_MAX_CONNECTIONS_PER_USER (3) connections in the
\* registry, and a connection refused for that reason is closed with the
\* reason and has neither a session nor a registry entry.
C5_RegistryWithinLimit ==
  /\ \A u \in DOMAIN active_connections : Cardinality(active_connections[u]) <= 3
  /\ \A c \in Conns :
       close_reason[c] = "Max connections reached" =>
         /\ pc[c] = "closed"
         /\ sessions[c] = NoSession
         /\ ~Registered(c)

\* a user holds three connections and a fourth was refused
C5_Witness ==
  \E u \in DOMAIN active_connections, c \in Conns :
    /\ Cardinality(active_connections[u]) = 3
    /\ close_reason[c] = "Max connections reached"
    /\ c \notin active_connections[u]

\* C6: an authenticated connection that has reached Closed, by a transport
\* disconnect or by an error escaping the message loop, has no session and no
\* registry entry, and no user key is left with an empty set.
C6_ClosedIsReleased ==
  /\ \A c \in Conns :
       (authenticated[c] /\ pc[c] = "closed") =>
         sessions[c] = NoSession /\ ~Registered(c)
  /\ \A u \in DOMAIN active_connections : active_connections[u] # {}

\* one connection closed by its client, one by an escaping error, a third of
\* the same user still registered
C6_Witness ==
  \E c1, c2, c3 \in Conns :
    /\ authenticated[c1] /\ pc[c1] = "closed" /\ client_gone[c1]
    /\ authenticated[c2] /\ pc[c2] = "closed" /\ ~client_gone[c2]
    /\ pc[c3] = "loop"
    /\ active_connections = [u \in {sessions[c3].user_id} |-> {c3}]

\* C7: once the client has closed the connection during a streaming turn, no
\* further chunk is pulled from the LLM stream for that turn and the turn
\* writes neither the response cache nor the session history.
C7_CloseCancelsStream ==
  [][\A c \in Conns :
       (client_gone[c] /\ pc[c] = "streaming") =>
         /\ Len(turn'[c].accumulated) <= Len(turn[c].accumulated)
         /\ cache' = cache
         /\ log'[c] = log[c]]_vars

\* C8: a connection closed for the authentication timeout has no session and
\* no registry entry, was never authenticated, and was sent no event.
C8_TimeoutClosesSilently ==
  \A c \in Conns :
    close_reason[c] = "Authentication timeout" =>
      /\ pc[c] = "closed"
      /\ ~authenticated[c]
      /\ sessions[c] = NoSession
      /\ ~Registered(c)
      /\ events[c] = <<>>

\* a connection timed out while another one of the server is in its loop
C8_Witness ==
  \E c, d \in Conns :
    /\ close_reason[c] = "Authentication timeout"
    /\ pc[c] = "closed"
    /\ pc[d] = "loop"

\* the server ended the handshake: the handler is done, the connection was
\* never authenticated and the client had not left
RejectedByServer(c) == pc[c] = "closed" /\ ~authenticated[c] /\ ~client_gone[c]

\* C9: a first message that is malformed, is no authenticate message, has no
\* token or a token that fails verification gets the connection closed with an
\* explicit reason; the connection gets no session, no registry entry, no event.
C9_RejectedWithReason ==
  \A c \in Conns :
    RejectedByServer(c) =>
      /\ close_reason[c] # ""
      /\ sessions[c] = NoSession
      /\ ~Registered(c)
      /\ events[c] = <<>>

\* the events of a streamed turn that completed: the last one is the final event
StreamedTurn(c) ==
  /\ pc[c] = "loop"
  /\ events[c] # <<>>
  /\ events[c][Len(events[c])].type = "response"
  /\ events[c][Len(events[c])].done
  /\ ~events[c][Len(events[c])].cached

\* C10 as stated: in a completed streamed turn every response event's content,
\* the last one's included, extends the content of the event before it, and
\* the last event is the only one with done: true.
C10_EveryEventExtends ==
  \A c \in Conns :
    StreamedTurn(c) =>
      LET ev == events[c]
      IN /\ \A i \in 2..Len(ev) : IsPrefix(ev[i - 1].content, ev[i].content)
         /\ \A i \in 1..(Len(ev) - 1) : ~ev[i].done

\* C10 amended: the partial events grow, each extending the one before; the
\* last event is the only one with done: true and carries the text of the last
\* partial event with leading and trailing whitespace removed.
C10_PartialsGrowFinalStripped ==
  \A c \in Conns :
    StreamedTurn(c) =>
      LET ev == events[c]
          n == Len(ev)
      IN /\ \A i \in 1..(n - 1) : ev[i].type = "response" /\ ~ev[i].done
         /\ \A i \in 2..(n - 1) :
              /\ IsPrefix(ev[i - 1].content, ev[i].content)
              /\ Len(ev[i].content) > Len(ev[i - 1].content)
         /\ ev[n].content = Strip(IF n > 1 THEN ev[n - 1].content ELSE <<>>)

\* a completed turn of two chunks whose final text is shorter than the last partial
C10_Witness ==
  \E c \in Conns :
    /\ StreamedTurn(c)
    /\ Len(events[c]) = 3
    /\ events[c][3].content # <<>>
    /\ Len(events[c][3].content) < Len(events[c][2].content)

\* C11: a chat turn whose (user, history, message) has a live cache entry is
\* answered by exactly one response event carrying the stored text with done
\* and cached set, opens no stream, and appends the user message and the stored
\* text to the session history.
C11_HitServedFromCache ==
  [][\A c \in Conns : \A content \in CacheContents :
       RecvChatHit(c, content) =>
         LET user_message == Strip(content)
             stored == CacheGet(CacheKey(sessions[c], user_message))
         IN /\ events'[c] = <<ResponseEvent(stored, TRUE, TRUE)>>
            /\ pc'[c] = "loop"
            /\ sessions'[c] = AddExchange(sessions[c], user_message, stored)]_vars

\* C12: a non-transient provider failure (an invalid request) ends the chat()
\* call: it is the call's last provider request and the call raises that error.
C12_InvalidNotRetried ==
  \A i \in 1..Len(llm.outcomes) :
    llm.outcomes[i] = "invalid" =>
      /\ i = Len(llm.outcomes)
      /\ llm.pc = "raised"
      /\ llm.error = "invalid"

\* the failures of the chat() call so far were all transient
TransientOnly == \A i \in 1..Len(llm.outcomes) : llm.outcomes[i] \in {"ok", "transient"}

\* C13 as stated: a transient failure is retried up to 3 times, so a call
\* that raises has made its first attempt and 3 retries, and the error counter
\* has been incremented.
C13_ThreeRetries ==
  (TransientOnly /\ llm.pc = "raised") =>
    /\ Len(llm.outcomes) - 1 = 3
    /\ llm.content = ""
    /\ llm_stats.errors > llm.errors_before

\* C13 amended: a transient failure is retried within 3 attempts in all (the
\* first one and at most 2 retries); a call that returns fresh content returns
\* that of its one successful attempt, and a call raises only once the third
\* attempt has failed, with the provider's error, without content, and with the
\* error counter incremented once per failed attempt.
C13_ThreeAttempts ==
  TransientOnly =>
    LET n == Len(llm.outcomes)
    IN /\ n <= 3
       /\ \A i \in 1..(n - 1) : llm.outcomes[i] = "transient"
       /\ (llm.pc = "returned" /\ ~llm.cached) =>
            /\ llm.outcomes[n] = "ok"
            /\ llm.content \in LLMContents
            /\ llm_stats.errors = llm.errors_before + (n - 1)
       /\ llm.pc = "raised" =>
            /\ n = 3
            /\ llm.outcomes[n] = "transient"
            /\ llm.error = "transient"
            /\ llm.content = ""
            /\ llm_stats.errors = llm.errors_before + 3
       /\ llm.pc = "attempt" => (n = llm.attempt_number - 1 /\ n <= 2)

\* a call that raised after three transient failures, following a call that
\* had succeeded
C13_Witness ==
  /\ llm.pc = "raised"
  /\ llm.outcomes = <<"transient", "transient", "transient">>
  /\ llm_stats.total_requests > 0

\* C14: when the LLM stream of a chat turn fails, the error event is sent only
\* after the provider request of the turn has been retried, and the connection
\* stays in its message loop with its session and registry entry.
C14_ErrorAfterRetries ==
  [][\A c \in Conns :
       (pc[c] = "streaming" /\ events'[c] = Append(events[c], FailedToGenerate)) =>
         /\ turn[c].provider_requests > 1
         /\ pc'[c] = "loop"
         /\ sessions'[c] = sessions[c]
         /\ active_connections' = active_connections]_vars

NoErrorEvent(evs) == \A i \in 1..Len(evs) : evs[i].type # "error"

\* C15: a chat turn whose cache lookup fails goes on to the LLM stream as on a
\* miss, and a turn whose cache store fails completes as any other: its exchange
\* is appended to the history; neither sends an error event.
C15_CacheFailureSwallowed ==
  [][\A c \in Conns :
       /\ \A content \in StreamContents :
            RecvChatCacheDown(c, content) =>
              (pc'[c] = "streaming" /\ NoErrorEvent(events'[c]))
       /\ StreamEndCacheDown(c) =>
            /\ NoErrorEvent(events'[c])
            /\ sessions'[c] = AddExchange(sessions[c], turn[c].user_message,
                                          FinalResponse(turn[c].accumulated))]_vars

\* C16: an error raised while a message-type client message is processed is
\* answered by an error event and the loop goes on: the connection stays in
\* the loop with its session and its registry entry.
C16_TurnErrorKeepsLoop ==
  [][\A c \in Conns : \A content_kind \in {"number", "null", "list"} :
       RecvChatNonString(c, content_kind) =>
         /\ pc'[c] = "loop"
         /\ events'[c] # <<>>
         /\ events'[c][Len(events'[c])].type = "error"
         /\ sessions'[c] = sessions[c]
         /\ active_connections' = active_connections]_vars

\* C17: every document retrieve returns has a score of at least the
\* retriever's similarity_threshold, whatever rows the store answered with.
C17_ScoresAtLeastThreshold ==
  retrieval.called =>
    \A i \in 1..Len(retrieval.result.documents) :
      retrieval.result.documents[i].score >= similarity_threshold

\* the store answered with a row under the threshold and one that passes
C17_Witness ==
  /\ retrieval.called
  /\ retrieval.result.documents # <<>>
  /\ \E p \in 1..Len(store) : store[p].similarity < similarity_threshold

\* the position in the store's answer of the row a document was made from
RowOf(doc) ==
  CHOOSE p \in 1..Len(store) :
    /\ store[p].id = doc.chunk_id
    /\ \A q \in 1..Len(store) : store[q].id = doc.chunk_id => p <= q

\* C18: no two returned documents have the same trimmed first 200 characters,
\* and of the rows that pass the threshold and share a content key the one
\* returned is the first in descending score order (the store's order breaking
\* ties).
C18_OnePerContentKey ==
  retrieval.called =>
    LET docs == retrieval.result.documents
    IN /\ \A i, j \in 1..Len(docs) :
            i # j => ContentKey(docs[i]) # ContentKey(docs[j])
       /\ \A i \in 1..Len(docs) : \A p \in 1..Len(store) :
            (store[p].similarity >= similarity_threshold
               /\ ContentKey(store[p]) = ContentKey(docs[i])) =>
              \/ store[p].similarity < docs[i].score
              \/ store[p].similarity = docs[i].score /\ RowOf(docs[i]) <= p

\* two rows that pass the threshold share their content, one of them is returned
C18_Witness ==
  /\ retrieval.called
  /\ \E p, q \in 1..Len(store) :
       /\ p < q
       /\ store[p].similarity >= similarity_threshold
       /\ store[q].similarity > store[p].similarity
       /\ ContentKey(store[p]) = ContentKey(store[q])
       /\ store[p].content # store[q].content
       /\ \E i \in 1..Len(retrieval.result.documents) :
            retrieval.result.documents[i].chunk_id = store[q].id

\* C19: whatever texts are cached, missing or unreadable in the cache,
\* embed_batch(texts) returns as many vectors as texts, the i-th one the
\* embedding of texts[i]; it raises only when the model's encode raises.
C19_BatchOrderPreserved ==
  embedded.called =>
    /\ embedded.raised => (embedded.encode = "raise" /\ embedded.text_indices # <<>>)
    /\ ~embedded.raised =>
         /\ Len(embedded.result) = Len(embedded.texts)
         /\ \A i \in 1..Len(embedded.texts) :
              embedded.result[i] = Encode(embedded.texts[i])

\* two different texts, the first served from the cache, the second computed
C19_Witness ==
  /\ embedded.called
  /\ ~embedded.raised
  /\ Len(embedded.texts) = 2
  /\ embedded.text_indices = <<2>>
  /\ embedded.texts[1] # embedded.texts[2]

\* the (user, history, message) triples of the open sessions and the messages
\* a client may send next
Triples ==
  {<<sessions[c], Strip(content)>> :
     c \in {d \in Conns : sessions[d] # NoSession}, content \in CacheContents}

\* C20: the cache key of a turn is a function of the user, the session history
\* and the user message, and different triples have different keys.
C20_KeyIdentifiesTriple ==
  \A s, t \in Triples :
    CacheKey(s[1], s[2]) = CacheKey(t[1], t[2])
      <=> /\ s[1].user_id = t[1].user_id
          /\ s[1].conversation_history = t[1].conversation_history
          /\ s[2] = t[2]

\* two sessions of one user with different histories, and a session of the
\* other user
C20_Witness ==
  \E c, d \in Conns :
    /\ sessions[c] # NoSession /\ sessions[d] # NoSession
    /\ sessions[c].user_id # sessions[d].user_id
    /\ sessions[c].conversation_history # sessions[d].conversation_history
    /\ sessions[c].conversation_history # <<>>

\* C21: a send_message request that finds a live entry under its cache key is
\* answered from the cache: it returns the stored response with cached = true
\* and does not call the LLM.
C21_IdenticalQueryServedFromCache ==
  (http.endpoint = "send_message" /\ http.cached_response # <<>>)
    => /\ http.status = 200
       /\ http.response # <<>>
       /\ http.response[1].cached
       /\ http.response[1].response = http.cached_response[1].response
       /\ ~http.llm_called

C29_CacheEntryOfRequestingUser ==
  (http.endpoint = "send_message" /\ http.cached_response # <<>>)
    => chat_sessions[http.cached_response[1].conversation_id] = http.user_id

\* C30: the stored history placed in the prompt of an HTTP chat request has
\* only messages of sessions of the requesting user: when the request names a
\* session of another user, no stored message enters the prompt, whose history
\* part is then the history the request carries.
C30_PromptHistoryOfOwnSessions ==
  (/\ http.endpoint \in {"send_message", "send_message_stream"}
   /\ http.llm_called
   /\ http.session_id \in DOMAIN chat_sessions
   /\ chat_sessions[http.session_id] # http.user_id)
    => /\ http.db_conversation_history = <<>>
       /\ SubSeq(http.messages, 2, Len(http.messages) - 1)
            = LastN(http.conversation_history, PROMPT_HISTORY)

\* the durable stores hold the exchange: a session file of the user has the
\* user's block followed by the assistant's, or a session of the user has the
\* user's row followed by the assistant's
ExchangeStored(files, rows, owners, user_id, user_message, reply) ==
  \/ \E f \in DOMAIN files :
       /\ f[1] = user_id
       /\ \E i \in 1..(Len(files[f]) - 1) :
            /\ files[f][i] = [role |-> "user", content |-> user_message]
            /\ files[f][i + 1] = [role |-> "assistant", content |-> reply]
  \/ \E i \in 1..(Len(rows) - 1) :
       /\ rows[i].session_id \in DOMAIN owners
       /\ owners[rows[i].session_id] = user_id
       /\ rows[i] = ChatMessageRow(rows[i].session_id, "user", user_message)
       /\ rows[i + 1] = ChatMessageRow(rows[i].session_id, "assistant", reply)

\* C23: when a WebSocket chat turn completes with its done: true response, the
\* exchange, the user's message and the assistant's reply, is in the durable
\* message store.
C23_CompletedTurnPersisted ==
  [][\A c \in Conns :
       StreamEnd(c) =>
         ExchangeStored(history_files', chat_messages', chat_sessions',
                        sessions[c].user_id, turn[c].user_message,
                        FinalResponse(turn[c].accumulated))]_vars

\* row p of the store's answer passes the retriever's threshold
RowPasses(p) == store[p].similarity >= similarity_threshold

\* row p comes before row q in descending score order, the store's order
\* breaking ties
RowBefore(p, q) ==
  \/ store[p].similarity > store[q].similarity
  \/ store[p].similarity = store[q].similarity /\ p < q

\* the rows that pass the threshold and are the first of their content key
KeptRows ==
  {p \in 1..Len(store) :
     /\ RowPasses(p)
     /\ \A q \in 1..Len(store) :
          (RowPasses(q) /\ RowBefore(q, p))
            => ContentKey(store[q]) # ContentKey(store[p])}

\* C24: the documents retrieve returns are the first k of the store's rows
\* that pass the threshold and are the first of their content key, in
\* descending score order with ties in the store's order; they are never more
\* than k and never out of descending score order.
C24_FirstKOfRanked ==
  (retrieval.called /\ retrieval.embed = "ok" /\ retrieval.search = "ok") =>
    LET docs == retrieval.result.documents
    IN /\ Len(docs) = Min(retrieval.k, Cardinality(KeptRows))
       /\ Len(docs) <= retrieval.k
       /\ \A i \in 1..Len(docs) :
            \E p \in KeptRows :
              /\ Cardinality({q \in KeptRows : RowBefore(q, p)}) = i - 1
              /\ docs[i] = [content |-> store[p].content,
                            score |-> store[p].similarity,
                            source |-> store[p].source, chunk_id |-> store[p].id]
       /\ \A i, j \in 1..Len(docs) : i < j => docs[i].score >= docs[j].score

\* three rows are kept, two of them with one score, a better one comes after
\* them in the store's answer, and only two documents are returned
C24_Witness ==
  /\ retrieval.called /\ retrieval.embed = "ok" /\ retrieval.search = "ok"
  /\ Cardinality(KeptRows) = 3
  /\ Len(retrieval.result.documents) = 2
  /\ retrieval.result.documents[1].score = retrieval.result.documents[2].score
  /\ \E p, q \in KeptRows :
       p < q /\ store[q].similarity > store[p].similarity

\* the summed length of the formatted parts of the first n documents
RECURSIVE PartsLength(_, _)
PartsLength(docs, n) ==
  IF n = 0 THEN 0 ELSE PartsLength(docs, n - 1) + Len(FormatPart(n, docs[n]))

\* the documents whose formatted part pushes the summed length over the budget
Overflowing(docs, maxlen) == {i \in 1..Len(docs) : PartsLength(docs, i) > maxlen}

\* the first of them
FirstOverflowing(docs, maxlen) ==
  CHOOSE i \in Overflowing(docs, maxlen) :
    \A j \in Overflowing(docs, maxlen) : i <= j

\* the context when the first overflowing document is cut to the remaining
\* budget if at least least_remaining characters remain and dropped otherwise,
\* and no later document is added
ContextCutAt(docs, maxlen, least_remaining) ==
  IF Overflowing(docs, maxlen) = {}
  THEN Join([i \in 1..Len(docs) |-> FormatPart(i, docs[i])], <<"\n">>)
  ELSE LET first == FirstOverflowing(docs, maxlen)
           remaining == maxlen - PartsLength(docs, first - 1)
           whole == [i \in 1..(first - 1) |-> FormatPart(i, docs[i])]
       IN  IF remaining >= least_remaining
           THEN Join(Append(whole, Take(FormatPart(first, docs[first]), remaining)
                                     \o ELLIPSIS),
                     <<"\n">>)
           ELSE Join(whole, <<"\n">>)

\* C25 as the spec states it: the first document over the budget is cut to the
\* remaining budget if and only if at least 100 characters remain.
C25_PrefixIffAtLeast100 ==
  (retrieval.called /\ retrieval.embed = "ok" /\ retrieval.search = "ok") =>
    retrieval.result.context
      = ContextCutAt(retrieval.result.documents, max_context_length,
                     MEANINGFUL_REMAINING)

\* C25: the first document whose formatted part pushes the accumulated length
\* over max_context_length is cut to the remaining budget if and only if more
\* than 100 characters remain; otherwise it is dropped, and in both cases no
\* later document is added.
C25_PrefixIffMoreThan100 ==
  (retrieval.called /\ retrieval.embed = "ok" /\ retrieval.search = "ok") =>
    retrieval.result.context
      = ContextCutAt(retrieval.result.documents, max_context_length,
                     MEANINGFUL_REMAINING + 1)

\* the first document over the budget is reached with exactly 100 characters
\* remaining, and a document follows it
C25_Witness ==
  /\ retrieval.called /\ retrieval.embed = "ok" /\ retrieval.search = "ok"
  /\ LET docs == retrieval.result.documents
     IN /\ Overflowing(docs, max_context_length) # {}
        /\ FirstOverflowing(docs, max_context_length) < Len(docs)
        /\ max_context_length
             - PartsLength(docs, FirstOverflowing(docs, max_context_length) - 1)
           = MEANINGFUL_REMAINING

\* C26: with caching enabled and Redis answering, an attempt of chat() whose
\* key has a stored response returns that content marked cached without
\* calling the provider; otherwise it calls the provider and, when the provider
\* answers, stores the returned content under the key.
C26_CacheRoundTrip ==
  [][\A provider \in ProviderOutcomes, content \in LLMContents :
       (llm.use_cache /\ ChatAttempt("ok", provider, content, "ok")) =>
         LET cache_key == GenerateCacheKey(llm.messages)
         IN  IF cache_key \in DOMAIN llm_cache
             THEN /\ llm'.pc = "returned"
                  /\ llm'.cached
                  /\ llm'.content = llm_cache[cache_key]
                  /\ llm'.outcomes = llm.outcomes
                  /\ llm_cache' = llm_cache
             ELSE /\ llm'.outcomes = Append(llm.outcomes, provider)
                  /\ provider = "ok" =>
                       /\ llm'.pc = "returned"
                       /\ ~llm'.cached
                       /\ llm'.content = content
                       /\ cache_key \in DOMAIN llm_cache'
                       /\ llm_cache'[cache_key] = content]_vars

\* C27: a chat turn in which the response event with done: true was sent ends
\* with the turn's user message and that assistant text as the last two
\* entries of the session's history.
C27_DoneTurnInHistory ==
  [][\A c \in Conns :
       (StreamEnd(c) \/ StreamEndCacheDown(c)) =>
         /\ \E i \in 1..Len(events'[c]) :
              events'[c][i] = ResponseEvent(FinalResponse(turn[c].accumulated),
                                            TRUE, FALSE)
         /\ Len(sessions'[c].conversation_history) >= 2
         /\ LastN(sessions'[c].conversation_history, 2)
              = <<[role |-> "user", content |-> turn[c].user_message],
                  [role |-> "assistant",
                   content |-> FinalResponse(turn[c].accumulated)]>>]_vars

\* the history holds complete exchanges only: an even number of entries, the
\* roles alternating from user
CompleteExchanges(history) ==
  /\ Len(history) % 2 = 0
  /\ \A i \in 1..Len(history) :
       history[i].role = IF i % 2 = 1 THEN "user" ELSE "assistant"

\* C28: the history of a session always holds complete exchanges only, and a
\* turn that is rejected for its empty input or that ends with an error event
\* appends nothing to the history and leaves message_count as it was.
C28_OnlyCompleteExchanges ==
  [][\A c \in Conns :
       /\ sessions'[c] # NoSession =>
            CompleteExchanges(sessions'[c].conversation_history)
       /\ (\/ \E content \in SessionContents :
                \/ RecvChatEmpty(c, content)
                \/ RecvChatCacheDown(c, content)
                \/ RecvChatHit(c, content)
           \/ StreamFail(c)
           \/ StreamEndCacheDown(c))
            => /\ events'[c] # <<>>
               /\ events'[c][Len(events'[c])].type = "error"
               /\ sessions'[c] = sessions[c]]_vars

\* a session that has trimmed its history, and whose latest turn failed
C28_Witness ==
  \E c \in Conns :
    /\ sessions[c] # NoSession
    /\ sessions[c].message_count > 10
    /\ Len(sessions[c].conversation_history) = 10
    /\ events[c] # <<>>
    /\ events[c][Len(events[c])] = FailedToGenerate

====
